---- MODULE Spec2Model ----
(***************************************************************************)
(* Study-session / task / analytics state machine of the study app:        *)
(* the timer page (TimerPage), the dashboard quick start, the client data  *)
(* layer (utils/supabase/client.tsx) and the database tables and triggers  *)
(* (database-schema.sql) of one owner, used from several browser tabs.     *)
(***************************************************************************)
EXTENDS Integers, Sequences, FiniteSets, TLC

\* ------------------------------------------------------------------ bounds
NumTabs == 2            \* browser tabs of the owner
MaxSessions == 2        \* rows the sessions table may hold
MaxTodos == 2           \* rows the todos table may hold
MaxTicks == 2           \* clock advances of TickSec seconds
MaxClicks == 5          \* user actions in one run
MaxFailures == 1        \* data-layer calls that throw in one run
MaxCycle == 8           \* completed work phases per page
MaxDuration == 8        \* minutes a session may accumulate
MaxChk == 1             \* checkActiveSession calls in flight per tab
TickSec == 60           \* seconds that pass in one Tick step
WorkMinutes == 1        \* user.preferences.defaultPomodoroTime
ShortBreakMinutes == 1  \* user.preferences.defaultShortBreak
LongBreakMinutes == 2   \* user.preferences.defaultLongBreak
MaxW == 3               \* largest work duration (minutes) tried by SpecRecon
MaxElapsedMin == 4      \* largest whole-minute age of a session in SpecRecon
MaxApiDuration == 2     \* largest duration a data-layer caller passes (SpecData)
MaxCalls == 4           \* data-layer calls in one run (SpecData)
MaxTitleLen == 2        \* longest title a caller passes to createTodo
Today == 20             \* the day, counted from the epoch, of SpecView's clock
HistoryMinutes == 45    \* duration of the sessions in SpecView's histories
MaxInserts == 3         \* inserts one getAnalytics call may attempt

\* ------------------------------------------------------- program constants
MsPerMinute == 60000
SecPerMinute == 60
MsPerSec == 1000
LongBreakEvery == 4
MsPerDay == 86400000
WeekDays == 7
MonthDays == 30
YearDays == 365
ApproximatePending == 10

Tabs == 1..NumTabs
SessionIds == 1..MaxSessions
TodoIds == 1..MaxTodos
Null == -1
Subjects == {"Math", "General Study"}
\* JavaScript turns the property key undefined into the string "undefined"
Keys == Subjects \cup {"undefined"}
Phases == {"work", "short-break", "long-break"}

VARIABLES
  pages,               \* the tabs that have the application open
  budget,              \* user actions still allowed
  failures,            \* data-layer calls that have thrown
  now,                 \* wall clock, milliseconds
  sessions,            \* table sessions, by id
  analytics,           \* the owner's row of table analytics
  todos,               \* table todos, by id
  workDuration, shortBreakDuration, longBreakDuration,
  timeLeft, isActive, currentPhase, cycleCount, currentSession, tasks,
  chk,                 \* checkActiveSession calls in flight, per tab
  phaseOp,             \* handlePhaseComplete awaiting updateStudySession
  startOp,             \* startSession awaiting createStudySession
  endOp,               \* handleEndSession awaiting updateStudySession
  todoOp,              \* handleCreateTask / handleToggleTask / handleDeleteTask
  err,                 \* the error the tab's last failed data-layer call threw
  titles,              \* column todos.title, by id
  ticker,              \* per tab: intervalRef.current and the intervals armed
  timeRange, analyticsData, viewOp,   \* analytics page
  routeResponse,       \* last response of the route GET /analytics
  rowExists,           \* the owner has a row in table analytics
  getOp                \* getAnalytics calls in flight, per caller

db == <<sessions, analytics, todos>>
prefs == <<workDuration, shortBreakDuration, longBreakDuration>>
analyticsPage == <<timeRange, analyticsData, viewOp, routeResponse>>
lazy == <<rowExists, getOp>>
aux == <<err, titles, analyticsPage, lazy>>
timer == <<timeLeft, isActive, currentPhase, cycleCount>>
ops == <<chk, phaseOp, startOp, endOp, todoOp>>
env == <<pages, budget, failures>>
vars == <<env, now, db, prefs, aux, ticker, timer, currentSession, tasks, ops>>

\* ------------------------------------------------------------- data model
NoRow == [present |-> FALSE, subject |-> "", duration |-> 0,
          start_time |-> 0, end_time |-> Null]
NoSession == [id |-> 0, subject |-> "", duration |-> 0, start_time |-> 0]
\* a todos row; state is "unused" (id never given out), "live" or "deleted"
NoTodo == [state |-> "unused", status |-> "pending", completed_at |-> Null]
ZeroAnalytics == [total_sessions |-> 0, total_study_time |-> 0,
                  total_completed_tasks |-> 0,
                  subjects_breakdown |-> [k \in Keys |-> 0]]

Max(a, b) == IF a >= b THEN a ELSE b
Min(a, b) == IF a <= b THEN a ELSE b

RECURSIVE SumOver(_, _)
SumOver(f, S) ==
  IF S = {} THEN 0
  ELSE LET x == CHOOSE y \in S : TRUE IN f[x] + SumOver(f, S \ {x})

phases(p) ==
  CASE p = "work" -> workDuration
    [] p = "short-break" -> shortBreakDuration
    [] p = "long-break" -> longBreakDuration

\* rows of the owner with no end time
OpenSessions == {i \in SessionIds : sessions[i].present /\ sessions[i].end_time = Null}
ClosedSessions == {i \in SessionIds : sessions[i].present /\ sessions[i].end_time # Null}

\* getActiveStudySession: the most recently created open row, or null
getActiveStudySession ==
  IF OpenSessions = {} THEN NoSession
  ELSE LET i == CHOOSE j \in OpenSessions : \A k \in OpenSessions : k <= j
       IN [id |-> i, subject |-> sessions[i].subject,
           duration |-> sessions[i].duration, start_time |-> sessions[i].start_time]

\* checkActiveSession: remaining seconds of the work phase of a resumed session
elapsedMinutes(start) == (now - start) \div MsPerMinute
remainingTime_noclamp(start) ==
  (workDuration * SecPerMinute) - (elapsedMinutes(start) * SecPerMinute)
remainingTime(start) ==
  Max(0, (workDuration * SecPerMinute) - (elapsedMinutes(start) * SecPerMinute))

\* handlePhaseComplete: the phase and the cycle count that follow
newCycleCountOf(phase, c) == IF phase = "work" THEN c + 1 ELSE c
nextPhaseOf_late(phase, c) ==
  IF phase = "work"
  THEN (IF c % LongBreakEvery = 0 THEN "long-break" ELSE "short-break")
  ELSE "work"
nextPhaseOf(phase, c) ==
  IF phase = "work"
  THEN (IF (c + 1) % LongBreakEvery = 0 THEN "long-break" ELSE "short-break")
  ELSE "work"

\* handleEndSession: the final duration sent with the end time
endDuration(t) ==
  currentSession[t].duration
    + ((phases(currentPhase[t]) * SecPerMinute - timeLeft[t]) \div SecPerMinute)

IdlePhase == [stage |-> "idle", id |-> 0, duration |-> 0, phase |-> "work",
              cycle |-> 0]
IdleStart == [stage |-> "idle", subject |-> "", start_time |-> 0, id |-> 0]
IdleEnd == [stage |-> "idle", id |-> 0, subject |-> "", duration |-> 0,
            end_time |-> Null, snap |-> ZeroAnalytics]
IdleTodo == [stage |-> "idle", kind |-> "", id |-> 0, status |-> "pending",
             completed_at |-> Null, snap |-> ZeroAnalytics, title |-> <<>>]


\* errors a data-layer call throws: a failed request, and the two the code names
Unavailable == "unavailable"
TitleRequired == "Todo title is required"
NoRowReturned == "no row returned"
NoError == "none"

\* titles are short strings over a blank and a letter
Chars == {" ", "a"}
Titles == UNION {[1..n -> Chars] : n \in 0..MaxTitleLen}
NoTitle == <<>>

\* String.prototype.trim, as createTodo applies it to todo.title
RECURSIVE trimStart(_)
trimStart(s) == IF s # <<>> /\ Head(s) = " " THEN trimStart(Tail(s)) ELSE s
RECURSIVE trimEnd(_)
trimEnd(s) ==
  IF s # <<>> /\ s[Len(s)] = " " THEN trimEnd(SubSeq(s, 1, Len(s) - 1)) ELSE s
trim_identity(s) == s
trim(s) == trimEnd(trimStart(s))

\* the tick effect of the timer page: intervalRef.current is "null" before any
\* interval, "live" while it holds a running interval and "cleared" once that
\* interval was cleared but the reference kept; armed counts running intervals
NoTicker == [current |-> "null", armed |-> 0]
clearIntervalRef(r) ==
  IF r.current = "live" THEN [current |-> "cleared", armed |-> r.armed - 1] ELSE r
effectCleanup_none(r) == r
\* the function the effect returns: if (intervalRef.current) clearInterval(..)
effectCleanup(r) == clearIntervalRef(r)
\* the effect body: arm an interval while active with time left, otherwise
\* clear the referenced interval and null the reference
effectBody(r, active, left) ==
  IF active /\ left > 0
  THEN [current |-> "live", armed |-> r.armed + 1]
  ELSE [current |-> "null", armed |-> clearIntervalRef(r).armed]

\* the analytics page is not open (useState('week'), useState(null)) and the
\* route GET /analytics was not called
NoData == [studyHoursData |-> <<>>, streakData |-> <<>>,
           taskCompletionData |-> [Completed |-> 0, Pending |-> 0],
           stats |-> [totalSessions |-> 0, thisWeekSessions |-> 0]]
NoResponse == [status |-> 0, studyHoursData |-> <<>>,
               taskCompletionData |-> [Completed |-> 0, Pending |-> 0]]
InitView ==
  /\ timeRange = "week"
  /\ analyticsData = NoData
  /\ viewOp = "closed"
  /\ routeResponse = NoResponse
IdleGet == [stage |-> "idle", inserts |-> 0, insertError |-> ""]
InitAux ==
  /\ rowExists = TRUE
  /\ getOp = [t \in Tabs |-> IdleGet]
  /\ err = [t \in Tabs |-> NoError]
  /\ titles = [i \in TodoIds |-> NoTitle]
  /\ ticker = [t \in Tabs |-> NoTicker]
  /\ InitView

\* ------------------------------------------------------------------- Init
\* The owner is registered (handle_new_user inserted the zeroed analytics
\* row), the tables are empty and every tab has just mounted the timer page:
\* its useEffect has called checkActiveSession and loadTasks.
MountedChk == {[stage |-> "req", data |-> NoSession]}

InitDb ==
  /\ sessions = [i \in SessionIds |-> NoRow]
  /\ analytics = ZeroAnalytics
  /\ todos = [i \in TodoIds |-> NoTodo]

\* useState(25 * 60): the countdown shown before any session is loaded
InitialTimeLeft == 25 * SecPerMinute

InitPage ==
  /\ timeLeft = [t \in Tabs |-> InitialTimeLeft]
  /\ isActive = [t \in Tabs |-> FALSE]
  /\ currentPhase = [t \in Tabs |-> "work"]
  /\ cycleCount = [t \in Tabs |-> 0]
  /\ currentSession = [t \in Tabs |-> NoSession]
  /\ tasks = [t \in Tabs |-> [i \in TodoIds |-> NoTodo]]
  /\ chk = [t \in Tabs |-> MountedChk]
  /\ phaseOp = [t \in Tabs |-> IdlePhase]
  /\ startOp = [t \in Tabs |-> IdleStart]
  /\ endOp = [t \in Tabs |-> IdleEnd]
  /\ todoOp = [t \in Tabs |-> IdleTodo]

Init ==
  /\ pages = {1}
  /\ budget = MaxClicks
  /\ failures = 0
  /\ InitAux
  /\ now = 0
  /\ workDuration = WorkMinutes
  /\ shortBreakDuration = ShortBreakMinutes
  /\ longBreakDuration = LongBreakMinutes
  /\ InitDb
  /\ InitPage

\* ------------------------------------------------------------ data layer
\* createStudySession: insert a row; the id is the next unused one
FreeSessionIds == {i \in SessionIds : ~sessions[i].present}
NextSessionId == CHOOSE i \in FreeSessionIds : \A k \in FreeSessionIds : i <= k
createStudySession(id, subject, start) ==
  [sessions EXCEPT ![id] = [present |-> TRUE, subject |-> subject, duration |-> 0,
                            start_time |-> start, end_time |-> Null]]

\* updateStudySession, the sessions.update(updates) part: the row with this id
\* takes the given columns, whether or not it already has an end time
updateStudySession(id, duration, end) ==
  [sessions EXCEPT ![id] = [@ EXCEPT !.duration = duration,
                                     !.end_time = IF end = Null THEN @ ELSE end]]

\* updateStudySession, the condition updates.end_time && updates.duration
updatesAnalytics(duration, end) == end # Null /\ duration # 0

updateAnalyticsAfterSession_nobreakdown(snap, subject, duration) ==
  [analytics EXCEPT
     !.total_sessions = snap.total_sessions + 1,
     !.total_study_time = snap.total_study_time + duration]
\* updateAnalyticsAfterSession: the row written from the row read (snap);
\* the column total_completed_tasks is not part of the update
updateAnalyticsAfterSession(snap, subject, duration) ==
  [analytics EXCEPT
     !.total_sessions = snap.total_sessions + 1,
     !.total_study_time = snap.total_study_time + duration,
     !.subjects_breakdown =
        [snap.subjects_breakdown EXCEPT ![subject] = @ + duration]]

\* handleEndSession passes no subject in updates: updates.subject is undefined
endSubject == "undefined"

\* ------------------------------------------------------------ timer page
\* React runs the tick effect after a render in which isActive or timeLeft
\* changed: first the cleanup of the previous run, then the body
tickEffect ==
  ticker' = [t \in Tabs |->
    IF isActive'[t] = isActive[t] /\ timeLeft'[t] = timeLeft[t]
    THEN ticker[t]
    ELSE effectBody(effectCleanup(ticker[t]), isActive'[t], timeLeft'[t])]

CheckReq == [stage |-> "req", data |-> NoSession]
IssueCheck(t) ==
  /\ Cardinality(chk[t]) < MaxChk
  /\ CheckReq \notin chk[t]
  /\ chk' = [chk EXCEPT ![t] = @ \cup {CheckReq}]

\* the one-second interval, TickSec firings in a row; the clock moves with it
Tick ==
  /\ now < MaxTicks * TickSec * MsPerSec
  /\ \A t \in Tabs : ~(isActive[t] /\ timeLeft[t] = 0)
  /\ now' = now + TickSec * MsPerSec
  /\ timeLeft' = [t \in Tabs |->
        IF isActive[t] /\ timeLeft[t] > 0
        THEN timeLeft[t] - Min(TickSec, timeLeft[t]) ELSE timeLeft[t]]
  /\ UNCHANGED <<env, db, prefs, aux, isActive, currentPhase, cycleCount, currentSession,
                 tasks, ops>>
  /\ tickEffect

\* checkActiveSession: the select of getActiveStudySession reaches the database
CheckActiveRead(t) ==
  /\ \E c \in chk[t] :
       /\ c.stage = "req"
       /\ chk' = [chk EXCEPT ![t] =
             (@ \ {c}) \cup {[stage |-> "resp", data |-> getActiveStudySession]}]
  /\ UNCHANGED <<env, now, db, prefs, aux, ticker, timer, currentSession, tasks,
                 phaseOp, startOp, endOp, todoOp>>

\* checkActiveSession: getActiveStudySession throws, the catch logs it
CheckActiveFail(t) ==
  /\ failures < MaxFailures /\ failures' = failures + 1
  /\ err' = [err EXCEPT ![t] = Unavailable]
  /\ \E c \in chk[t] :
       /\ c.stage = "req"
       /\ chk' = [chk EXCEPT ![t] = @ \ {c}]
  /\ UNCHANGED <<pages, budget, now, db, prefs, titles, analyticsPage, lazy, ticker, timer, currentSession, tasks,
                 phaseOp, startOp, endOp, todoOp>>

\* checkActiveSession: the code after the await
CheckActiveCont(t) ==
  /\ \E c \in chk[t] :
       /\ c.stage = "resp"
       /\ chk' = [chk EXCEPT ![t] = @ \ {c}]
       /\ IF c.data.id # 0
          THEN /\ currentSession' = [currentSession EXCEPT ![t] = c.data]
               /\ timeLeft' = [timeLeft EXCEPT ![t] = remainingTime(c.data.start_time)]
          ELSE UNCHANGED <<currentSession, timeLeft>>
  /\ UNCHANGED <<env, now, db, prefs, aux, isActive, currentPhase, cycleCount, tasks,
                 phaseOp, startOp, endOp, todoOp>>
  /\ tickEffect

\* the tick effect finds timeLeft = 0 while active and calls handlePhaseComplete;
\* a work phase awaits updateStudySession, a break finishes at once
PhaseCompleteStart(t) ==
  /\ isActive[t] /\ timeLeft[t] = 0
  /\ phaseOp[t].stage = "idle"
  /\ cycleCount[t] < MaxCycle
  /\ currentSession[t].duration + workDuration <= MaxDuration
  /\ isActive' = [isActive EXCEPT ![t] = FALSE]
  /\ IF currentSession[t].id = 0
     THEN UNCHANGED <<phaseOp, cycleCount, currentPhase, timeLeft, chk>>
     ELSE IF currentPhase[t] = "work"
     THEN /\ phaseOp' = [phaseOp EXCEPT ![t] =
                [stage |-> "req", id |-> currentSession[t].id,
                 duration |-> currentSession[t].duration + workDuration,
                 phase |-> currentPhase[t], cycle |-> cycleCount[t]]]
          /\ UNCHANGED <<cycleCount, currentPhase, timeLeft, chk>>
     ELSE /\ cycleCount' = [cycleCount EXCEPT ![t] =
                newCycleCountOf(currentPhase[t], cycleCount[t])]
          /\ currentPhase' = [currentPhase EXCEPT ![t] =
                nextPhaseOf(currentPhase[t], cycleCount[t])]
          /\ timeLeft' = [timeLeft EXCEPT ![t] =
                phases(nextPhaseOf(currentPhase[t], cycleCount[t])) * SecPerMinute]
          /\ IssueCheck(t)
          /\ UNCHANGED phaseOp
  /\ UNCHANGED <<env, now, db, prefs, aux, currentSession, tasks, startOp, endOp, todoOp>>
  /\ tickEffect

\* handlePhaseComplete, the code after the await
PhaseCompleteCont(t) ==
  /\ cycleCount' = [cycleCount EXCEPT ![t] =
        newCycleCountOf(phaseOp[t].phase, phaseOp[t].cycle)]
  /\ currentPhase' = [currentPhase EXCEPT ![t] =
        nextPhaseOf(phaseOp[t].phase, phaseOp[t].cycle)]
  /\ timeLeft' = [timeLeft EXCEPT ![t] =
        phases(nextPhaseOf(phaseOp[t].phase, phaseOp[t].cycle)) * SecPerMinute]
  /\ IssueCheck(t)
  /\ phaseOp' = [phaseOp EXCEPT ![t] = IdlePhase]

\* handlePhaseComplete: updateStudySession(id, {duration}) reaches the database
\* (no end time in the updates, so no analytics update) and the handler resumes
PhaseUpdateDb(t) ==
  /\ phaseOp[t].stage = "req"
  /\ sessions' = updateStudySession(phaseOp[t].id, phaseOp[t].duration, Null)
  /\ PhaseCompleteCont(t)
  /\ UNCHANGED <<env, now, analytics, todos, prefs, aux, isActive, currentSession, tasks,
                 startOp, endOp, todoOp>>
  /\ tickEffect

PhaseUpdateFail_resume(t) ==
  /\ failures < MaxFailures /\ failures' = failures + 1
  /\ err' = [err EXCEPT ![t] = Unavailable]
  /\ phaseOp[t].stage = "req"
  /\ PhaseCompleteCont(t)
  /\ UNCHANGED <<pages, budget, now, db, prefs, titles, analyticsPage, lazy, isActive,
                 currentSession, tasks, startOp, endOp, todoOp>>
  /\ tickEffect
\* handlePhaseComplete: updateStudySession throws; nothing after the await runs
PhaseUpdateFail(t) ==
  /\ failures < MaxFailures /\ failures' = failures + 1
  /\ err' = [err EXCEPT ![t] = Unavailable]
  /\ phaseOp[t].stage = "req"
  /\ phaseOp' = [phaseOp EXCEPT ![t] = IdlePhase]
  /\ UNCHANGED <<pages, budget, now, db, prefs, titles, analyticsPage, lazy, ticker, timer, currentSession, tasks,
                 chk, startOp, endOp, todoOp>>

\* startSession (dialog button, shown while the page has no current session):
\* createStudySession is called with start_time = now
StartSessionCall(t) ==
  /\ budget > 0 /\ budget' = budget - 1
  /\ currentSession[t].id = 0
  /\ startOp[t].stage = "idle"
  /\ \E subject \in Subjects :
       startOp' = [startOp EXCEPT ![t] =
          [stage |-> "req", subject |-> subject, start_time |-> now, id |-> 0]]
  /\ UNCHANGED <<pages, failures, now, db, prefs, aux, ticker, timer, currentSession, tasks,
                 chk, phaseOp, endOp, todoOp>>

\* startSession, the code after the await
StartSessionCont(t, id) ==
  /\ currentSession' = [currentSession EXCEPT ![t] =
        [id |-> id, subject |-> startOp[t].subject, duration |-> 0,
         start_time |-> startOp[t].start_time]]
  /\ currentPhase' = [currentPhase EXCEPT ![t] = "work"]
  /\ timeLeft' = [timeLeft EXCEPT ![t] = workDuration * SecPerMinute]
  /\ isActive' = [isActive EXCEPT ![t] = TRUE]
  /\ startOp' = [startOp EXCEPT ![t] = IdleStart]

\* startSession: the insert reaches the database and the handler resumes
StartSessionDb(t) ==
  /\ startOp[t].stage = "req"
  /\ FreeSessionIds # {}
  /\ sessions' = createStudySession(NextSessionId, startOp[t].subject,
                                    startOp[t].start_time)
  /\ StartSessionCont(t, NextSessionId)
  /\ UNCHANGED <<env, now, analytics, todos, prefs, aux, cycleCount, tasks,
                 chk, phaseOp, endOp, todoOp>>
  /\ tickEffect

\* startSession: createStudySession throws, the catch logs it
StartSessionFail(t) ==
  /\ failures < MaxFailures /\ failures' = failures + 1
  /\ err' = [err EXCEPT ![t] = Unavailable]
  /\ startOp[t].stage = "req"
  /\ startOp' = [startOp EXCEPT ![t] = IdleStart]
  /\ UNCHANGED <<pages, budget, now, db, prefs, titles, analyticsPage, lazy, ticker, timer, currentSession, tasks,
                 chk, phaseOp, endOp, todoOp>>

\* handleStart (the button reads Start while the timer is not active); without a
\* current session it only opens the dialog
handleStart(t) ==
  /\ budget > 0 /\ budget' = budget - 1
  /\ ~isActive[t]
  /\ currentSession[t].id # 0
  /\ isActive' = [isActive EXCEPT ![t] = TRUE]
  /\ UNCHANGED <<pages, failures, now, db, prefs, aux, timeLeft, currentPhase, cycleCount,
                 currentSession, tasks, ops>>
  /\ tickEffect

\* handlePause (the same button while the timer is active)
handlePause(t) ==
  /\ budget > 0 /\ budget' = budget - 1
  /\ isActive[t]
  /\ isActive' = [isActive EXCEPT ![t] = FALSE]
  /\ UNCHANGED <<pages, failures, now, db, prefs, aux, timeLeft, currentPhase, cycleCount,
                 currentSession, tasks, ops>>
  /\ tickEffect

handleReset(t) ==
  /\ budget > 0 /\ budget' = budget - 1
  /\ isActive[t] \/ timeLeft[t] # phases(currentPhase[t]) * SecPerMinute
  /\ isActive' = [isActive EXCEPT ![t] = FALSE]
  /\ timeLeft' = [timeLeft EXCEPT ![t] = phases(currentPhase[t]) * SecPerMinute]
  /\ UNCHANGED <<pages, failures, now, db, prefs, aux, currentPhase, cycleCount, currentSession,
                 tasks, ops>>
  /\ tickEffect

\* handleEndSession: updateStudySession(id, {end_time, duration}) is called
EndSessionCall(t) ==
  /\ budget > 0 /\ budget' = budget - 1
  /\ currentSession[t].id # 0
  /\ endOp[t].stage = "idle"
  /\ endDuration(t) <= MaxDuration
  /\ endOp' = [endOp EXCEPT ![t] =
        [stage |-> "req", id |-> currentSession[t].id, subject |-> endSubject,
         duration |-> endDuration(t), end_time |-> now, snap |-> ZeroAnalytics]]
  /\ UNCHANGED <<pages, failures, now, db, prefs, aux, ticker, timer, currentSession, tasks,
                 chk, phaseOp, startOp, todoOp>>

\* handleEndSession, the code after the await
EndSessionCont(t) ==
  /\ currentSession' = [currentSession EXCEPT ![t] = NoSession]
  /\ isActive' = [isActive EXCEPT ![t] = FALSE]
  /\ currentPhase' = [currentPhase EXCEPT ![t] = "work"]
  /\ timeLeft' = [timeLeft EXCEPT ![t] = workDuration * SecPerMinute]
  /\ cycleCount' = [cycleCount EXCEPT ![t] = 0]
  /\ endOp' = [endOp EXCEPT ![t] = IdleEnd]

\* updateStudySession: the update of the sessions row reaches the database;
\* without an analytics update the handler resumes
EndSessionDb(t) ==
  /\ endOp[t].stage = "req"
  /\ sessions' = updateStudySession(endOp[t].id, endOp[t].duration, endOp[t].end_time)
  /\ IF updatesAnalytics(endOp[t].duration, endOp[t].end_time)
     THEN /\ endOp' = [endOp EXCEPT ![t].stage = "getAnalytics"]
          /\ UNCHANGED <<timer, currentSession>>
     ELSE EndSessionCont(t)
  /\ UNCHANGED <<env, now, analytics, todos, prefs, aux, tasks,
                 chk, phaseOp, startOp, todoOp>>
  /\ tickEffect

\* updateAnalyticsAfterSession: getAnalytics reads the owner's row
EndAnalyticsRead(t) ==
  /\ endOp[t].stage = "getAnalytics"
  /\ endOp' = [endOp EXCEPT ![t].stage = "update", ![t].snap = analytics]
  /\ UNCHANGED <<env, now, db, prefs, aux, ticker, timer, currentSession, tasks,
                 chk, phaseOp, startOp, todoOp>>

\* updateAnalyticsAfterSession: the update of the analytics row; the handler
\* resumes
EndAnalyticsWrite(t) ==
  /\ endOp[t].stage = "update"
  /\ analytics' = updateAnalyticsAfterSession(endOp[t].snap, endOp[t].subject,
                                              endOp[t].duration)
  /\ EndSessionCont(t)
  /\ UNCHANGED <<env, now, sessions, todos, prefs, aux, tasks,
                 chk, phaseOp, startOp, todoOp>>
  /\ tickEffect

\* handleEndSession: one of the awaited calls throws, the catch logs it
EndSessionFail(t) ==
  /\ failures < MaxFailures /\ failures' = failures + 1
  /\ err' = [err EXCEPT ![t] = Unavailable]
  /\ endOp[t].stage \in {"req", "getAnalytics", "update"}
  /\ endOp' = [endOp EXCEPT ![t] = IdleEnd]
  /\ UNCHANGED <<pages, budget, now, db, prefs, titles, analyticsPage, lazy, ticker, timer, currentSession, tasks,
                 chk, phaseOp, startOp, todoOp>>

\* nothing of the tab is in flight
Quiet(t) ==
  /\ chk[t] = {}
  /\ phaseOp[t].stage = "idle" /\ startOp[t].stage = "idle"
  /\ endOp[t].stage = "idle" /\ todoOp[t].stage = "idle"

\* the timer page is mounted: fresh component state, checkActiveSession called
Mount(t) ==
  /\ timeLeft' = [timeLeft EXCEPT ![t] = InitialTimeLeft]
  /\ isActive' = [isActive EXCEPT ![t] = FALSE]
  /\ currentPhase' = [currentPhase EXCEPT ![t] = "work"]
  /\ cycleCount' = [cycleCount EXCEPT ![t] = 0]
  /\ currentSession' = [currentSession EXCEPT ![t] = NoSession]
  /\ tasks' = [tasks EXCEPT ![t] = [i \in TodoIds |-> NoTodo]]
  /\ chk' = [chk EXCEPT ![t] = MountedChk]

\* dashboard, startQuickSession: createStudySession, then onNavigate('/timer')
startQuickSession(t) ==
  /\ budget > 0 /\ budget' = budget - 1
  /\ Quiet(t)
  /\ FreeSessionIds # {}
  /\ sessions' = createStudySession(NextSessionId, "General Study", now)
  /\ Mount(t)
  /\ UNCHANGED <<pages, failures, now, analytics, todos, prefs, aux, phaseOp, startOp, endOp, todoOp>>
  /\ ticker' = [ticker EXCEPT ![t] = NoTicker]

\* the tab reloads the timer page
Reload(t) ==
  /\ budget > 0 /\ budget' = budget - 1
  /\ Quiet(t)
  /\ currentSession[t].id # 0 \/ isActive[t]
  /\ Mount(t)
  /\ UNCHANGED <<pages, failures, now, db, prefs, aux, phaseOp, startOp, endOp, todoOp>>
  /\ ticker' = [ticker EXCEPT ![t] = NoTicker]

\* ------------------------------------------------------------------ todos
FreeTodoIds == {i \in TodoIds : todos[i].state = "unused"}
NextTodoId == CHOOSE i \in FreeTodoIds : \A k \in FreeTodoIds : i <= k
LiveTodos == {i \in TodoIds : todos[i].state = "live"}

update_todo_completed_at_noclear(old, new) ==
  IF new.status = "completed" /\ old.status # "completed"
  THEN [new EXCEPT !.completed_at = now]
  ELSE new
\* trigger update_todo_completed_at (BEFORE UPDATE ON todos)
update_todo_completed_at(old, new) ==
  IF new.status = "completed" /\ old.status # "completed"
  THEN [new EXCEPT !.completed_at = now]
  ELSE IF new.status # "completed" /\ old.status = "completed"
  THEN [new EXCEPT !.completed_at = Null]
  ELSE new

\* updateTodo, the todos.update(updates) part: a column that is undefined in
\* updates (completed_at = Null here) is left as it is; then the trigger runs
updateTodo(id, status, completed) ==
  [todos EXCEPT ![id] = update_todo_completed_at(@,
      [@ EXCEPT !.status = status,
                !.completed_at = IF completed = Null THEN @ ELSE completed])]

\* createTodo: the insert; completed_at takes the column default NULL
createTodo(id, status, completed) ==
  [todos EXCEPT ![id] = [state |-> "live", status |-> status,
                         completed_at |-> completed]]

deleteTodo(id) == [todos EXCEPT ![id] = [NoTodo EXCEPT !.state = "deleted"]]

completesTask_always(status) == TRUE
\* updateTodo, the condition updates.status === 'completed'
completesTask(status) == status = "completed"

updateAnalyticsAfterTaskCompletion_wholerow(snap) ==
  [snap EXCEPT !.total_completed_tasks = snap.total_completed_tasks + 1]
\* updateAnalyticsAfterTaskCompletion: only total_completed_tasks is written
updateAnalyticsAfterTaskCompletion(snap) ==
  [analytics EXCEPT !.total_completed_tasks = snap.total_completed_tasks + 1]

\* handleToggleTask: the updates object built from the task shown in the list
toggleStatus(t, id) ==
  IF tasks[t][id].status # "completed" THEN "completed" ELSE "pending"
toggleCompletedAt(t, id) ==
  IF tasks[t][id].status # "completed" THEN now ELSE Null

\* loadTasks (on mount, or when the page is opened again): getTodos, setTasks
loadTasks(t) ==
  /\ budget > 0 /\ budget' = budget - 1
  /\ todoOp[t].stage = "idle"
  /\ tasks[t] # [i \in TodoIds |-> IF todos[i].state = "live" THEN todos[i] ELSE NoTodo]
  /\ tasks' = [tasks EXCEPT ![t] =
        [i \in TodoIds |-> IF todos[i].state = "live" THEN todos[i] ELSE NoTodo]]
  /\ UNCHANGED <<pages, failures, now, db, prefs, aux, ticker, timer, currentSession, ops>>

\* handleCreateTask: returns at once when newTaskTitle.trim() is empty, else
\* createTodo({title: newTaskTitle, description, status: 'pending'})
handleCreateTask(t) ==
  /\ budget > 0 /\ budget' = budget - 1
  /\ todoOp[t].stage = "idle"
  /\ \E newTaskTitle \in Titles :
       /\ trim(newTaskTitle) # NoTitle
       /\ todoOp' = [todoOp EXCEPT ![t] =
             [IdleTodo EXCEPT !.stage = "req", !.kind = "create",
                              !.title = newTaskTitle]]
  /\ UNCHANGED <<pages, failures, now, db, prefs, aux, ticker, timer, currentSession, tasks,
                 chk, phaseOp, startOp, endOp>>

\* handleToggleTask(taskId, task.status !== 'completed'), from a listed task
handleToggleTask(t, id) ==
  /\ budget > 0 /\ budget' = budget - 1
  /\ todoOp[t].stage = "idle"
  /\ tasks[t][id].state = "live"
  /\ todoOp' = [todoOp EXCEPT ![t] =
        [IdleTodo EXCEPT !.stage = "req", !.kind = "toggle", !.id = id,
                         !.status = toggleStatus(t, id),
                         !.completed_at = toggleCompletedAt(t, id)]]
  /\ UNCHANGED <<pages, failures, now, db, prefs, aux, ticker, timer, currentSession, tasks,
                 chk, phaseOp, startOp, endOp>>

\* handleDeleteTask(taskId), from a listed task
handleDeleteTask(t, id) ==
  /\ budget > 0 /\ budget' = budget - 1
  /\ todoOp[t].stage = "idle"
  /\ tasks[t][id].state = "live"
  /\ todoOp' = [todoOp EXCEPT ![t] =
        [IdleTodo EXCEPT !.stage = "req", !.kind = "delete", !.id = id]]
  /\ UNCHANGED <<pages, failures, now, db, prefs, aux, ticker, timer, currentSession, tasks,
                 chk, phaseOp, startOp, endOp>>

\* handleToggleTask, the code after the await: the listed task is replaced
ToggleTaskCont(t, row) ==
  /\ tasks' = [tasks EXCEPT ![t] =
        [i \in TodoIds |-> IF i = todoOp[t].id /\ @[i].state = "live"
                           THEN row ELSE @[i]]]
  /\ todoOp' = [todoOp EXCEPT ![t] = IdleTodo]

ownedRow_anyowner(id) == todos[id].state \in {"live", "foreign"}
\* the filter .eq('id', todoId).eq('user_id', user.id) of updateTodo and
\* deleteTodo: the row exists and belongs to the caller ("foreign" is a row of
\* another owner)
ownedRow(id) == todos[id].state = "live"

\* createTodo: a title that trims to nothing throws before any insert and the
\* caller's catch logs it; otherwise the insert, with the trimmed title,
\* reaches the database and setTasks appends the row
TodoCreateDb(t) ==
  /\ todoOp[t].stage = "req" /\ todoOp[t].kind = "create"
  /\ IF trim(todoOp[t].title) = NoTitle
     THEN /\ err' = [err EXCEPT ![t] = TitleRequired]
          /\ UNCHANGED <<todos, titles, tasks>>
     ELSE /\ FreeTodoIds # {}
          /\ todos' = createTodo(NextTodoId, todoOp[t].status,
                                 todoOp[t].completed_at)
          /\ titles' = [titles EXCEPT ![NextTodoId] = trim(todoOp[t].title)]
          /\ tasks' = [tasks EXCEPT ![t][NextTodoId] = todos'[NextTodoId]]
          /\ UNCHANGED err
  /\ todoOp' = [todoOp EXCEPT ![t] = IdleTodo]
  /\ UNCHANGED <<env, now, sessions, analytics, prefs, analyticsPage, lazy, ticker, timer,
                 currentSession, chk, phaseOp, startOp, endOp>>

\* updateTodo: the update reaches the database. No row with this id: .single()
\* reports an error, updateTodo throws and the catch logs it. Otherwise the
\* handler resumes, or the analytics update starts
TodoUpdateDb(t) ==
  /\ todoOp[t].stage = "req" /\ todoOp[t].kind = "toggle"
  /\ IF ~ownedRow(todoOp[t].id)
     THEN /\ todoOp' = [todoOp EXCEPT ![t] = IdleTodo]
          /\ err' = [err EXCEPT ![t] = NoRowReturned]
          /\ UNCHANGED <<todos, tasks>>
     ELSE /\ todos' = updateTodo(todoOp[t].id, todoOp[t].status,
                                 todoOp[t].completed_at)
          /\ UNCHANGED err
          /\ IF completesTask(todoOp[t].status)
             THEN /\ todoOp' = [todoOp EXCEPT ![t].stage = "getAnalytics",
                       ![t].completed_at = todos'[todoOp[t].id].completed_at]
                  /\ UNCHANGED tasks
             ELSE ToggleTaskCont(t, todos'[todoOp[t].id])
  /\ UNCHANGED <<env, now, sessions, analytics, prefs, titles, analyticsPage, lazy, ticker, timer, currentSession,
                 chk, phaseOp, startOp, endOp>>

\* updateAnalyticsAfterTaskCompletion: getAnalytics reads the owner's row
TodoAnalyticsRead(t) ==
  /\ todoOp[t].stage = "getAnalytics"
  /\ todoOp' = [todoOp EXCEPT ![t].stage = "update", ![t].snap = analytics]
  /\ UNCHANGED <<env, now, db, prefs, aux, ticker, timer, currentSession, tasks,
                 chk, phaseOp, startOp, endOp>>

\* updateAnalyticsAfterTaskCompletion: the update of the analytics row; the
\* handler resumes with the row updateTodo returns
TodoAnalyticsWrite(t) ==
  /\ todoOp[t].stage = "update"
  /\ analytics' = updateAnalyticsAfterTaskCompletion(todoOp[t].snap)
  /\ ToggleTaskCont(t, [state |-> "live", status |-> todoOp[t].status,
                        completed_at |-> todoOp[t].completed_at])
  /\ UNCHANGED <<env, now, sessions, todos, prefs, aux, ticker, timer, currentSession,
                 chk, phaseOp, startOp, endOp>>

\* deleteTodo: the delete reaches the database (no error when no row matches);
\* setTasks drops the task
TodoDeleteDb(t) ==
  /\ todoOp[t].stage = "req" /\ todoOp[t].kind = "delete"
  /\ todos' = IF ownedRow(todoOp[t].id)
              THEN deleteTodo(todoOp[t].id) ELSE todos
  /\ tasks' = [tasks EXCEPT ![t][todoOp[t].id] = NoTodo]
  /\ todoOp' = [todoOp EXCEPT ![t] = IdleTodo]
  /\ UNCHANGED <<env, now, sessions, analytics, prefs, aux, ticker, timer, currentSession,
                 chk, phaseOp, startOp, endOp>>

\* a todo call throws (network, authentication), the handler's catch logs it
TodoFail(t) ==
  /\ failures < MaxFailures /\ failures' = failures + 1
  /\ err' = [err EXCEPT ![t] = Unavailable]
  /\ todoOp[t].stage \in {"req", "getAnalytics", "update"}
  /\ todoOp' = [todoOp EXCEPT ![t] = IdleTodo]
  /\ UNCHANGED <<pages, budget, now, db, prefs, titles, analyticsPage, lazy, ticker, timer, currentSession, tasks,
                 chk, phaseOp, startOp, endOp>>

TodoNext ==
  \E t \in pages :
    \/ loadTasks(t) \/ handleCreateTask(t)
    \/ \E id \in TodoIds : handleToggleTask(t, id) \/ handleDeleteTask(t, id)
    \/ TodoCreateDb(t) \/ TodoUpdateDb(t) \/ TodoAnalyticsRead(t)
    \/ TodoAnalyticsWrite(t) \/ TodoDeleteDb(t) \/ TodoFail(t)

SessionNext ==
  \/ Tick
  \/ \E t \in pages :
       \/ CheckActiveRead(t) \/ CheckActiveFail(t) \/ CheckActiveCont(t)
       \/ PhaseCompleteStart(t) \/ PhaseUpdateDb(t) \/ PhaseUpdateFail(t)
       \/ StartSessionCall(t) \/ StartSessionDb(t) \/ StartSessionFail(t)
       \/ handleStart(t) \/ handlePause(t) \/ handleReset(t)
       \/ EndSessionCall(t) \/ EndSessionDb(t) \/ EndAnalyticsRead(t)
       \/ EndAnalyticsWrite(t) \/ EndSessionFail(t)
       \/ startQuickSession(t) \/ Reload(t)

\* ------------------------------------------- callers of the data layer
\* Any caller of the exported functions of client.tsx, with arguments of its
\* choice; the page state of the calling tab is not involved.
ApiCreateSession(c) ==
  /\ budget > 0 /\ budget' = budget - 1
  /\ FreeSessionIds # {}
  /\ \E subject \in Subjects :
       sessions' = createStudySession(NextSessionId, subject, now)
  /\ UNCHANGED <<pages, failures, now, analytics, todos, prefs, aux, ticker, timer, currentSession,
                 tasks, ops>>

\* updateStudySession(sessionId, updates); subject "undefined" is an updates
\* object without subject, end = FALSE one without end_time
ApiUpdateSession(c) ==
  /\ budget > 0 /\ budget' = budget - 1
  /\ endOp[c].stage = "idle"
  /\ \E id \in SessionIds, subject \in Keys, d \in 0..MaxApiDuration, end \in BOOLEAN :
       /\ sessions[id].present
       /\ endOp' = [endOp EXCEPT ![c] =
            [stage |-> "req", id |-> id, subject |-> subject, duration |-> d,
             end_time |-> IF end THEN now ELSE Null, snap |-> ZeroAnalytics]]
  /\ UNCHANGED <<pages, failures, now, db, prefs, aux, ticker, timer, currentSession, tasks,
                 chk, phaseOp, startOp, todoOp>>

\* createTodo(todo), with any title
ApiCreateTodo(c) ==
  /\ budget > 0 /\ budget' = budget - 1
  /\ todoOp[c].stage = "idle"
  /\ \E title \in Titles :
       todoOp' = [todoOp EXCEPT ![c] =
          [IdleTodo EXCEPT !.stage = "req", !.kind = "create", !.title = title]]
  /\ UNCHANGED <<pages, failures, now, db, prefs, aux, ticker, timer, currentSession, tasks,
                 chk, phaseOp, startOp, endOp>>

\* updateTodo(todoId, {status}) 
ApiUpdateTodo(c) ==
  /\ budget > 0 /\ budget' = budget - 1
  /\ todoOp[c].stage = "idle"
  /\ \E id \in TodoIds, status \in {"pending", "completed"} :
       todoOp' = [todoOp EXCEPT ![c] =
          [IdleTodo EXCEPT !.stage = "req", !.kind = "toggle", !.id = id,
                           !.status = status]]
  /\ UNCHANGED <<pages, failures, now, db, prefs, aux, ticker, timer, currentSession, tasks,
                 chk, phaseOp, startOp, endOp>>

\* deleteTodo(todoId)
ApiDeleteTodo(c) ==
  /\ budget > 0 /\ budget' = budget - 1
  /\ todoOp[c].stage = "idle"
  /\ \E id \in TodoIds :
       todoOp' = [todoOp EXCEPT ![c] =
          [IdleTodo EXCEPT !.stage = "req", !.kind = "delete", !.id = id]]
  /\ UNCHANGED <<pages, failures, now, db, prefs, aux, ticker, timer, currentSession,
                 tasks, chk, phaseOp, startOp, endOp>>

DataNext ==
  \E c \in pages :
    \/ ApiCreateSession(c) \/ ApiUpdateSession(c)
    \/ EndSessionDb(c) \/ EndAnalyticsRead(c) \/ EndAnalyticsWrite(c)
    \/ EndSessionFail(c)
    \/ ApiCreateTodo(c) \/ ApiUpdateTodo(c)
    \/ TodoCreateDb(c) \/ TodoUpdateDb(c) \/ TodoAnalyticsRead(c)
    \/ TodoAnalyticsWrite(c) \/ TodoFail(c)

\* -------------------------------------------------------- analytics page
\* App passes the row getUserProfile returns as the page's user prop: the
\* columns of the users table, among which there is no stats
user == [id |-> "owner", email |-> "owner", full_name |-> "owner",
         preferences |-> [defaultPomodoroTime |-> 25, defaultShortBreak |-> 5,
                          defaultLongBreak |-> 15]]

Ranges == {"week", "month", "year"}
daysToShow(range) ==
  IF range = "week" THEN WeekDays ELSE IF range = "month" THEN MonthDays ELSE YearDays

\* the calendar day of an instant, with days of 24 hours from the epoch
DayOf(ms) == ms \div MsPerDay

\* Math.round(minutes / 60 * 10) / 10, in tenths of an hour
hoursOf(minutes) == (minutes + 3) \div 6
\* Math.round(part / total * 100)
percentOf(part, total) == (200 * part + total) \div (2 * total)

PresentSessions == {i \in SessionIds : sessions[i].present}
\* session.completedAt and session.totalFocusMinutes: the rows getStudySessions
\* returns have the columns of the sessions table, so both are undefined
completedAt(row) == IF "completedAt" \in DOMAIN row THEN row.completedAt ELSE Null
totalFocusMinutes(row) ==
  IF "totalFocusMinutes" \in DOMAIN row THEN row.totalFocusMinutes ELSE Null

\* loadAnalyticsData: sessions.filter(s => s.completedAt && date >= filterDate)
filteredSessions(range) ==
  {i \in PresentSessions :
     /\ completedAt(sessions[i]) # Null
     /\ DayOf(completedAt(sessions[i])) >= DayOf(now) - daysToShow(range)}

\* loadAnalyticsData: the loop for (i = daysToShow - 1; i >= 0; i--), which
\* pushes the entry of the day i days before today
studyHoursData(range) ==
  [k \in 1..daysToShow(range) |->
     LET day == DayOf(now) - (daysToShow(range) - k)
         daySessions == {i \in filteredSessions(range) :
                            DayOf(completedAt(sessions[i])) = day}
     IN [day |-> day,
         hours |-> hoursOf(SumOver([i \in SessionIds |->
                                     totalFocusMinutes(sessions[i])], daySessions)),
         sessions |-> Cardinality(daySessions)]]

\* loadAnalyticsData: the loop over the last 30 days
streakData ==
  [k \in 1..MonthDays |->
     LET day == DayOf(now) - (MonthDays - k)
     IN [date |-> day,
         studied |-> \E i \in PresentSessions :
                        /\ completedAt(sessions[i]) # Null
                        /\ DayOf(completedAt(sessions[i])) = day]]

\* loadAnalyticsData: completedTasks = user.stats.tasksCompleted and
\* totalTasks = completedTasks + 10
taskCompletionData(completedTasks) ==
  LET totalTasks == completedTasks + ApproximatePending
  IN [Completed |-> IF totalTasks > 0 THEN percentOf(completedTasks, totalTasks)
                    ELSE 0,
      Pending |-> IF totalTasks > 0
                  THEN percentOf(totalTasks - completedTasks, totalTasks) ELSE 0]

\* loadAnalyticsData: the data the catch block sets
fallbackData ==
  [studyHoursData |-> <<>>, streakData |-> <<>>,
   taskCompletionData |-> [Completed |-> 0, Pending |-> 100],
   stats |-> [totalSessions |-> 0, thisWeekSessions |-> 0]]

\* loadAnalyticsData once both fetches have resolved: the try block builds the
\* series, then reads user.stats.tasksCompleted; with user.stats undefined
\* that read throws a TypeError and the catch block sets the fallback
loadedData(range) ==
  IF "stats" \notin DOMAIN user
  THEN fallbackData
  ELSE [studyHoursData |-> studyHoursData(range), streakData |-> streakData,
        taskCompletionData |-> taskCompletionData(user.stats.tasksCompleted),
        stats |-> [totalSessions |-> Cardinality(PresentSessions),
                   thisWeekSessions |-> Cardinality(filteredSessions("week"))]]

\* the page is opened: the effect on [timeRange] calls loadAnalyticsData
OpenAnalytics(t) ==
  /\ viewOp = "closed"
  /\ viewOp' = "loading"
  /\ UNCHANGED <<env, now, db, prefs, err, titles, lazy, ticker, timer, currentSession,
                 tasks, ops, timeRange, analyticsData, routeResponse>>

\* a range button (rendered once loading is false): setTimeRange(range), and
\* the effect calls loadAnalyticsData again
setTimeRange(t, range) ==
  /\ viewOp = "shown"
  /\ range # timeRange
  /\ timeRange' = range
  /\ viewOp' = "loading"
  /\ UNCHANGED <<env, now, db, prefs, err, titles, lazy, ticker, timer, currentSession,
                 tasks, ops, analyticsData, routeResponse>>

\* loadAnalyticsData: getAnalytics and getStudySessions resolve
LoadAnalyticsCont(t) ==
  /\ viewOp = "loading"
  /\ analyticsData' = loadedData(timeRange)
  /\ viewOp' = "shown"
  /\ UNCHANGED <<env, now, db, prefs, err, titles, lazy, ticker, timer, currentSession,
                 tasks, ops, timeRange, routeResponse>>

\* loadAnalyticsData: a fetch throws or the 20 s timeout wins the race; the
\* catch block logs the error and sets the fallback
LoadAnalyticsFail(t) ==
  /\ failures < MaxFailures /\ failures' = failures + 1
  /\ viewOp = "loading"
  /\ err' = [err EXCEPT ![t] = Unavailable]
  /\ analyticsData' = fallbackData
  /\ viewOp' = "shown"
  /\ UNCHANGED <<pages, budget, now, db, prefs, titles, lazy, ticker, timer,
                 currentSession, tasks, ops, timeRange, routeResponse>>

\* the route GET /analytics: sessions with an end time created in the last
\* seven days; one entry for each of the last seven days; the split over the
\* owner's todos
recentSessions ==
  {i \in PresentSessions :
     /\ sessions[i].end_time # Null
     /\ sessions[i].start_time >= now - WeekDays * MsPerDay}
routeStudyHoursData ==
  [k \in 1..WeekDays |->
     LET day == DayOf(now - (WeekDays - k) * MsPerDay)
         daySessions == {i \in recentSessions : DayOf(sessions[i].start_time) = day}
     IN [day |-> day,
         hours |-> hoursOf(SumOver([i \in SessionIds |-> sessions[i].duration],
                                  daySessions))]]
routeTaskCompletionData ==
  LET completedTasks == Cardinality({i \in LiveTodos : todos[i].status = "completed"})
      totalTasks == Cardinality(LiveTodos)
  IN [Completed |-> IF totalTasks > 0 THEN percentOf(completedTasks, totalTasks)
                    ELSE 0,
      Pending |-> IF totalTasks > 0
                  THEN percentOf(totalTasks - completedTasks, totalTasks) ELSE 100]
RouteGetAnalytics ==
  /\ routeResponse' = [status |-> 200, studyHoursData |-> routeStudyHoursData,
                       taskCompletionData |-> routeTaskCompletionData]
  /\ UNCHANGED <<env, now, db, prefs, err, titles, lazy, ticker, timer, currentSession,
                 tasks, ops, timeRange, analyticsData, viewOp>>
\* the route GET /analytics: the analytics select fails, or anything throws
RouteGetAnalyticsFail ==
  /\ failures < MaxFailures /\ failures' = failures + 1
  /\ routeResponse' = [NoResponse EXCEPT !.status = 500]
  /\ UNCHANGED <<pages, budget, now, db, prefs, err, titles, lazy, ticker, timer,
                 currentSession, tasks, ops, timeRange, analyticsData, viewOp>>

ViewNext ==
  \/ \E t \in pages :
       \/ OpenAnalytics(t) \/ LoadAnalyticsCont(t) \/ LoadAnalyticsFail(t)
       \/ \E range \in Ranges : setTimeRange(t, range)
  \/ RouteGetAnalytics \/ RouteGetAnalyticsFail

\* --------------------------------------------------------- specifications
Next == SessionNext
Spec == Init /\ [][Next]_vars

\* the todo handlers of the timer page, open in every tab
InitTodo ==
  /\ pages = Tabs
  /\ budget = MaxClicks
  /\ failures = 0
  /\ InitAux
  /\ now = 0
  /\ workDuration = WorkMinutes
  /\ shortBreakDuration = ShortBreakMinutes
  /\ longBreakDuration = LongBreakMinutes
  /\ InitDb
  /\ InitPage
SpecTodo == InitTodo /\ [][TodoNext]_vars

\* concurrent callers of the data layer
InitData ==
  /\ pages = Tabs
  /\ budget = MaxCalls
  /\ failures = 0
  /\ InitAux
  /\ now = 0
  /\ workDuration = WorkMinutes
  /\ shortBreakDuration = ShortBreakMinutes
  /\ longBreakDuration = LongBreakMinutes
  /\ InitDb
  /\ InitPage
SpecData == InitData /\ [][DataNext]_vars

\* handlePhaseComplete from every cycle count: a page in the middle of a
\* session (c work phases completed, each added workDuration minutes) whose
\* countdown has just reached 0
PhaseOk(p, c) ==
  \/ p = "work"
  \/ p = "short-break" /\ c % LongBreakEvery # 0
  \/ p = "long-break" /\ c % LongBreakEvery = 0 /\ c > 0
InitPhase ==
  /\ pages = {1}
  /\ budget = MaxClicks
  /\ failures = 0
  /\ InitAux
  /\ now = 0
  /\ workDuration = WorkMinutes
  /\ shortBreakDuration = ShortBreakMinutes
  /\ longBreakDuration = LongBreakMinutes
  /\ analytics = ZeroAnalytics
  /\ todos = [i \in TodoIds |-> NoTodo]
  /\ tasks = [t \in Tabs |-> [i \in TodoIds |-> NoTodo]]
  /\ \E c \in 0..(MaxCycle - 1), p \in Phases :
       /\ PhaseOk(p, c)
       /\ sessions = [i \in SessionIds |->
            IF i = 1 THEN [present |-> TRUE, subject |-> "Math",
                           duration |-> c * workDuration, start_time |-> 0,
                           end_time |-> Null]
            ELSE NoRow]
       /\ currentSession = [t \in Tabs |->
            IF t = 1 THEN [id |-> 1, subject |-> "Math",
                           duration |-> c * workDuration, start_time |-> 0]
            ELSE NoSession]
       /\ cycleCount = [t \in Tabs |-> IF t = 1 THEN c ELSE 0]
       /\ currentPhase = [t \in Tabs |-> IF t = 1 THEN p ELSE "work"]
  /\ isActive = [t \in Tabs |-> t = 1]
  /\ timeLeft = [t \in Tabs |-> IF t = 1 THEN 0 ELSE InitialTimeLeft]
  /\ chk = [t \in Tabs |-> {}]
  /\ phaseOp = [t \in Tabs |-> IdlePhase]
  /\ startOp = [t \in Tabs |-> IdleStart]
  /\ endOp = [t \in Tabs |-> IdleEnd]
  /\ todoOp = [t \in Tabs |-> IdleTodo]
PhaseNext ==
  \/ Tick
  \/ \E t \in pages :
       \/ PhaseCompleteStart(t) \/ PhaseUpdateDb(t) \/ PhaseUpdateFail(t)
       \/ CheckActiveRead(t) \/ CheckActiveFail(t) \/ CheckActiveCont(t)
       \/ handleStart(t)
SpecPhase == InitPhase /\ [][PhaseNext]_vars

\* checkActiveSession on a freshly mounted page, for every age of the open
\* session and every configured work duration
ReconOffsets == {0, 1, MsPerMinute - 1}
InitRecon ==
  /\ pages = {1}
  /\ budget = 1
  /\ failures = 0
  /\ InitAux
  /\ workDuration \in 1..MaxW
  /\ shortBreakDuration = ShortBreakMinutes
  /\ longBreakDuration = LongBreakMinutes
  /\ analytics = ZeroAnalytics
  /\ todos = [i \in TodoIds |-> NoTodo]
  /\ \E start \in ReconOffsets, q \in 0..MaxElapsedMin, r \in ReconOffsets :
       /\ now = start + q * MsPerMinute + r
       /\ sessions = [i \in SessionIds |->
            IF i = 1 THEN [present |-> TRUE, subject |-> "Math", duration |-> 0,
                           start_time |-> start, end_time |-> Null]
            ELSE NoRow]
  /\ InitPage
ReconNext ==
  \E t \in pages :
    CheckActiveRead(t) \/ CheckActiveFail(t) \/ CheckActiveCont(t)
SpecRecon == InitRecon /\ [][ReconNext]_vars

\* the analytics page and the route GET /analytics, for every history of at
\* most MaxSessions sessions and MaxTodos todos; the clock stands at noon of
\* day Today
SessionAges == {0, 2, WeekDays + 1}
HistoryRows ==
  {NoRow} \cup
  {[present |-> TRUE, subject |-> "General Study", duration |-> d,
    start_time |-> Today * MsPerDay + MsPerDay \div 2 - age * MsPerDay,
    end_time |-> IF closed
                 THEN Today * MsPerDay + MsPerDay \div 2 - age * MsPerDay
                      + d * MsPerMinute
                 ELSE Null] :
     d \in {0, HistoryMinutes}, age \in SessionAges, closed \in BOOLEAN}
HistoryTodos ==
  {NoTodo} \cup
  {[state |-> "live", status |-> st,
    completed_at |-> IF st = "completed" THEN Today * MsPerDay ELSE Null] :
     st \in {"pending", "completed"}}
InitAnalytics ==
  /\ rowExists = TRUE
  /\ getOp = [t \in Tabs |-> IdleGet]
  /\ pages = {1}
  /\ budget = 0
  /\ failures = 0
  /\ now = Today * MsPerDay + MsPerDay \div 2
  /\ workDuration = WorkMinutes
  /\ shortBreakDuration = ShortBreakMinutes
  /\ longBreakDuration = LongBreakMinutes
  /\ sessions \in [SessionIds -> HistoryRows]
  /\ \A i \in SessionIds : sessions[i].present =>
        \A k \in 1..(i - 1) : sessions[k].present
  /\ todos \in [TodoIds -> HistoryTodos]
  /\ \A i \in TodoIds : todos[i].state = "live" =>
        \A k \in 1..(i - 1) : todos[k].state = "live"
  /\ LET counted == {i \in SessionIds : sessions[i].present
                        /\ sessions[i].end_time # Null /\ sessions[i].duration # 0}
         minutes == SumOver([i \in SessionIds |-> sessions[i].duration], counted)
     IN analytics =
          [total_sessions |-> Cardinality(counted),
           total_study_time |-> minutes,
           total_completed_tasks |->
              Cardinality({i \in TodoIds : todos[i].status = "completed"}),
           subjects_breakdown |->
              [k \in Keys |-> IF k = endSubject THEN minutes ELSE 0]]
  /\ err = [t \in Tabs |-> NoError]
  /\ titles = [i \in TodoIds |-> IF todos[i].state = "live" THEN <<"a">> ELSE NoTitle]
  /\ ticker = [t \in Tabs |-> NoTicker]
  /\ InitView
  /\ InitPage
SpecView == InitAnalytics /\ [][ViewNext]_vars

\* the timer page of one tab with a work phase of two ticks, so that the
\* countdown passes through a value other than its start and 0
InitTick ==
  /\ pages = {1}
  /\ budget = MaxClicks
  /\ failures = 0
  /\ InitAux
  /\ now = 0
  /\ workDuration = WorkMinutes + 1
  /\ shortBreakDuration = ShortBreakMinutes
  /\ longBreakDuration = LongBreakMinutes
  /\ InitDb
  /\ InitPage
SpecTick == InitTick /\ [][Next]_vars

\* the handlers of the timer page that change a session or a todo, one tab
MutationNext ==
  \/ Tick
  \/ \E t \in pages :
       \/ CheckActiveRead(t) \/ CheckActiveCont(t)
       \/ StartSessionCall(t) \/ StartSessionDb(t)
       \/ PhaseCompleteStart(t) \/ PhaseUpdateDb(t) \/ PhaseUpdateFail(t)
       \/ EndSessionCall(t) \/ EndSessionDb(t) \/ EndAnalyticsRead(t)
       \/ EndAnalyticsWrite(t) \/ EndSessionFail(t)
       \/ handleCreateTask(t)
       \/ \E id \in TodoIds : handleToggleTask(t, id) \/ handleDeleteTask(t, id)
       \/ TodoCreateDb(t) \/ TodoUpdateDb(t) \/ TodoAnalyticsRead(t)
       \/ TodoAnalyticsWrite(t) \/ TodoDeleteDb(t) \/ TodoFail(t)
SpecMutation == Init /\ [][MutationNext]_vars

\* concurrent callers of the todo functions; the todos table also holds a
\* pending todo of another owner
ForeignTodo == [state |-> "foreign", status |-> "pending", completed_at |-> Null]
InitOwner ==
  /\ rowExists = TRUE
  /\ getOp = [t \in Tabs |-> IdleGet]
  /\ pages = Tabs
  /\ budget = MaxCalls
  /\ failures = 0
  /\ now = 0
  /\ workDuration = WorkMinutes
  /\ shortBreakDuration = ShortBreakMinutes
  /\ longBreakDuration = LongBreakMinutes
  /\ sessions = [i \in SessionIds |-> NoRow]
  /\ analytics = ZeroAnalytics
  /\ todos = [i \in TodoIds |-> IF i = MaxTodos THEN ForeignTodo ELSE NoTodo]
  /\ err = [t \in Tabs |-> NoError]
  /\ titles = [i \in TodoIds |-> IF i = MaxTodos THEN <<"a">> ELSE NoTitle]
  /\ ticker = [t \in Tabs |-> NoTicker]
  /\ InitView
  /\ InitPage
OwnerNext ==
  \E c \in pages :
    \/ ApiCreateTodo(c) \/ ApiUpdateTodo(c) \/ ApiDeleteTodo(c)
    \/ TodoCreateDb(c) \/ TodoUpdateDb(c) \/ TodoAnalyticsRead(c)
    \/ TodoAnalyticsWrite(c) \/ TodoDeleteDb(c) \/ TodoFail(c)
SpecOwner == InitOwner /\ [][OwnerNext]_vars

\* checkActiveSession on a freshly mounted page whose clock may be behind the
\* clock that stamped the open session's start time
InitSkew ==
  /\ pages = {1}
  /\ budget = 1
  /\ failures = 0
  /\ InitAux
  /\ workDuration \in 1..MaxW
  /\ shortBreakDuration = ShortBreakMinutes
  /\ longBreakDuration = LongBreakMinutes
  /\ analytics = ZeroAnalytics
  /\ todos = [i \in TodoIds |-> NoTodo]
  /\ \E base \in ReconOffsets, q \in (0 - MaxElapsedMin)..MaxElapsedMin,
        r \in ReconOffsets :
       LET start == MaxElapsedMin * MsPerMinute + base
       IN /\ now = start + q * MsPerMinute + r
          /\ sessions = [i \in SessionIds |->
               IF i = 1 THEN [present |-> TRUE, subject |-> "Math", duration |-> 0,
                              start_time |-> start, end_time |-> Null]
               ELSE NoRow]
  /\ InitPage
SpecSkew == InitSkew /\ [][ReconNext]_vars

\* getAnalytics with the lazy creation of the owner's row, two callers; the
\* row may be absent at the start
getAnalyticsCall(c) ==
  /\ budget > 0
  /\ getOp[c].stage \in {"idle", "returned", "thrown"}
  /\ budget' = budget - 1
  /\ getOp' = [getOp EXCEPT ![c] = [IdleGet EXCEPT !.stage = "select"]]
  /\ UNCHANGED <<pages, failures, now, db, prefs, err, titles, analyticsPage,
                 rowExists, ticker, timer, currentSession, tasks, ops>>

\* the select resolves: the row, or PGRST116 when there is none
getAnalyticsSelect(c) ==
  /\ getOp[c].stage = "select"
  /\ getOp' = [getOp EXCEPT ![c].stage =
                 IF rowExists THEN "returned" ELSE "insert"]
  /\ UNCHANGED <<env, now, db, prefs, err, titles, analyticsPage,
                 rowExists, ticker, timer, currentSession, tasks, ops>>

\* the select fails with any other error: getAnalytics throws it
getAnalyticsFail(c) ==
  /\ getOp[c].stage = "select"
  /\ failures < MaxFailures
  /\ failures' = failures + 1
  /\ getOp' = [getOp EXCEPT ![c].stage = "thrown"]
  /\ err' = [err EXCEPT ![c] = Unavailable]
  /\ UNCHANGED <<pages, budget, now, db, prefs, titles, analyticsPage,
                 rowExists, ticker, timer, currentSession, tasks, ops>>

\* initializeUserAnalytics: the insert creates the row, hits the unique key
\* (23505) or fails otherwise; the error is ignored or logged, and
\* getAnalytics calls itself again
initializeUserAnalytics(c) ==
  /\ getOp[c].stage = "insert"
  /\ getOp[c].inserts < MaxInserts
  /\ \E code \in IF rowExists THEN {"23505", "failed"} ELSE {"", "failed"} :
       /\ getOp' = [getOp EXCEPT ![c] =
                      [stage |-> "select", inserts |-> @.inserts + 1,
                       insertError |-> code]]
       /\ rowExists' = (rowExists \/ code = "")
       /\ analytics' = IF code = "" THEN ZeroAnalytics ELSE analytics
  /\ UNCHANGED <<env, now, sessions, todos, prefs, err, titles, analyticsPage,
                 ticker, timer, currentSession, tasks, ops>>

InitLazy ==
  /\ pages = Tabs
  /\ budget = MaxCalls
  /\ failures = 0
  /\ now = 0
  /\ workDuration = WorkMinutes
  /\ shortBreakDuration = ShortBreakMinutes
  /\ longBreakDuration = LongBreakMinutes
  /\ sessions = [i \in SessionIds |-> NoRow]
  /\ analytics = ZeroAnalytics
  /\ todos = [i \in TodoIds |-> NoTodo]
  /\ rowExists \in BOOLEAN
  /\ getOp = [t \in Tabs |-> IdleGet]
  /\ err = [t \in Tabs |-> NoError]
  /\ titles = [i \in TodoIds |-> NoTitle]
  /\ ticker = [t \in Tabs |-> NoTicker]
  /\ InitView
  /\ InitPage
LazyNext ==
  \E c \in pages :
    \/ getAnalyticsCall(c) \/ getAnalyticsSelect(c) \/ getAnalyticsFail(c)
    \/ initializeUserAnalytics(c)
SpecLazy == InitLazy /\ [][LazyNext]_vars

\* ----------------------------------------------------------------- claims
Quiescent == \A t \in pages : Quiet(t)

\* C1: when handlePhaseComplete runs with currentPhase = work and cycle count c
\* the cycle count becomes c + 1 and the next phase is long-break iff
\* (c + 1) % 4 = 0, else short-break; when a break completes the next phase is
\* work and the cycle count stays c.
WorkPhaseStarted(t) == phaseOp[t].stage = "idle" /\ phaseOp'[t].stage = "req"
WorkPhaseCompleted(t) ==
  phaseOp[t].stage = "req" /\ phaseOp'[t].stage = "idle" /\ failures' = failures
BreakPhaseCompleted(t) ==
  /\ isActive[t] /\ ~isActive'[t] /\ timeLeft[t] = 0
  /\ currentPhase[t] # "work" /\ currentSession[t].id # 0
  /\ chk'[t] # chk[t]
C1_PhaseCycling ==
  [][\A t \in Tabs :
       /\ WorkPhaseStarted(t) =>
            currentPhase[t] = "work" /\ phaseOp'[t].cycle = cycleCount[t]
       /\ WorkPhaseCompleted(t) =>
            /\ cycleCount'[t] = phaseOp[t].cycle + 1
            /\ currentPhase'[t] = IF (phaseOp[t].cycle + 1) % 4 = 0
                                  THEN "long-break" ELSE "short-break"
       /\ BreakPhaseCompleted(t) =>
            currentPhase'[t] = "work" /\ cycleCount'[t] = cycleCount[t]]_vars
C1_Witness ==
  \E t \in Tabs :
    /\ cycleCount[t] = 4 /\ currentPhase[t] = "long-break"
    /\ ~isActive[t] /\ timeLeft[t] = longBreakDuration * SecPerMinute
    /\ sessions[1].duration = 4 * workDuration

\* C2: closing a session of subject S with final duration d changes the
\* aggregate by exactly total_sessions + 1, total_study_time + d and
\* subjects_breakdown[S] + d; the other keys and total_completed_tasks stay.
EndSessionResumed(t) ==
  /\ endOp[t].stage # "idle" /\ endOp'[t].stage = "idle"
  /\ failures' = failures
C2_CloseFoldsSubject ==
  [][\A t \in Tabs :
       EndSessionResumed(t) =>
         LET S == sessions[endOp[t].id].subject
             d == endOp[t].duration
         IN /\ analytics'.total_sessions = analytics.total_sessions + 1
            /\ analytics'.total_study_time = analytics.total_study_time + d
            /\ analytics'.subjects_breakdown[S] = analytics.subjects_breakdown[S] + d
            /\ \A k \in Keys \ {S} :
                 analytics'.subjects_breakdown[k] = analytics.subjects_breakdown[k]
            /\ analytics'.total_completed_tasks = analytics.total_completed_tasks]_vars

\* C3: when the analytics read-modify-write steps of two session closes of the
\* owner interleave, no increment is lost: every close adds 1 to total_sessions
\* and its duration to total_study_time of the row as it is when it writes.
SessionAnalyticsWritten(t) ==
  endOp[t].stage = "update" /\ endOp'[t].stage = "idle" /\ failures' = failures
C3_NoLostIncrement ==
  [][\A t \in Tabs :
       SessionAnalyticsWritten(t) =>
         /\ analytics'.total_sessions = analytics.total_sessions + 1
         /\ analytics'.total_study_time =
              analytics.total_study_time + endOp[t].duration]_vars

\* C4: once all operations have finished (none of them having thrown),
\* total_study_time equals the sum of the durations of the owner's closed
\* sessions.
ClosedDuration == [i \in SessionIds |-> sessions[i].duration]
C4_TotalIsSumOfClosed ==
  (Quiescent /\ failures = 0) =>
    analytics.total_study_time = SumOver(ClosedDuration, ClosedSessions)

\* C5: in every state of the owner's aggregate row the values of
\* subjects_breakdown sum to total_study_time.
C5_BreakdownSumsToTotal ==
  SumOver(analytics.subjects_breakdown, Keys) = analytics.total_study_time
C5_Witness ==
  /\ analytics.total_sessions >= 2
  /\ \E k1, k2 \in Keys :
       /\ k1 # k2
       /\ analytics.subjects_breakdown[k1] > 0
       /\ analytics.subjects_breakdown[k2] > 0

\* C6: at any time the owner has at most one session with no end time.
C6_AtMostOneOpenSession == Cardinality(OpenSessions) <= 1

\* C7: the persisted duration of a session never decreases while the session
\* is open, and once the end time is set the duration never changes again
\* (in runs where no data-layer call has thrown).
C7_DurationMonotone ==
  [][failures = 0 =>
       \A i \in SessionIds :
         sessions[i].present =>
           /\ sessions[i].end_time = Null =>
                sessions'[i].duration >= sessions[i].duration
           /\ sessions[i].end_time # Null =>
                sessions'[i].duration = sessions[i].duration]_vars

\* C8: for every todo, in every state reached by create, toggle to completed,
\* toggle to pending and delete, completed_at is non-null iff status is
\* completed.
C8_CompletedAtIffCompleted ==
  \A i \in LiveTodos :
    (todos[i].completed_at # Null) <=> (todos[i].status = "completed")
C8_Witness ==
  /\ Cardinality(FreeTodoIds) = MaxTodos - 1
  /\ todos[1].state = "live" /\ todos[1].status = "pending"
  /\ analytics.total_completed_tasks >= 1
  /\ \A t \in Tabs : todoOp[t].stage = "idle"

\* C9: toggling a pending todo to completed adds exactly 1 to
\* total_completed_tasks (of the row it read, when no other write came between)
\* and leaves the session counters alone; toggling it back to pending leaves
\* total_completed_tasks as it is.
TaskAnalyticsWritten(t) ==
  todoOp[t].stage = "update" /\ todoOp'[t].stage = "idle" /\ failures' = failures
ToggledToPending(t) ==
  /\ todoOp[t].stage = "req" /\ todoOp[t].kind = "toggle"
  /\ todoOp[t].status = "pending" /\ todoOp'[t].stage # "req"
Reconciled(t) ==
  \E c \in chk[t] :
    /\ c.stage = "resp" /\ c.data.id # 0
    /\ chk'[t] = chk[t] \ {c}
    /\ currentSession'[t] = c.data
ReconExpected(start) ==
  LET whole == (now - start) \div 60000
  IN IF whole >= workDuration THEN 0 ELSE (workDuration - whole) * 60
C10_ReconciledRemaining ==
  [][\A t \in Tabs :
       Reconciled(t) =>
         /\ sessions[currentSession'[t].id].start_time <= now
              => timeLeft'[t] = ReconExpected(currentSession'[t].start_time)
         /\ timeLeft'[t] >= 0 /\ timeLeft'[t] <= workDuration * 60]_vars
C10_Witness ==
  \E t \in Tabs :
    /\ currentSession[t].id # 0 /\ chk[t] = {}
    /\ timeLeft[t] = 0
    /\ now - currentSession[t].start_time > workDuration * MsPerMinute

\* ------------------------------------------------- claims, analytics page
LoadResolved == viewOp = "loading" /\ viewOp' = "shown" /\ failures' = failures
LoadFailed == viewOp = "loading" /\ viewOp' = "shown" /\ failures' = failures + 1
\* the series has one entry per day, the last daysToShow(range) days, oldest
\* first and ending today
DailySeries(series, range) ==
  /\ Len(series) = daysToShow(range)
  /\ \A k \in 1..Len(series) :
        series[k].day = DayOf(now) - (daysToShow(range) - k)
ZeroSeries(series) ==
  \A k \in 1..Len(series) : series[k].hours = 0 /\ series[k].sessions = 0

\* C11: whenever the analytics page has loaded its data, for the week, month
\* or year range and any session history, the daily study-hours series it
\* displays has exactly 7 / 30 / 365 entries, one per day, oldest first and
\* ending today, and with no sessions every entry has 0 hours and 0 sessions.
C11_DailySeriesComplete ==
  [][LoadResolved =>
       /\ DailySeries(analyticsData'.studyHoursData, timeRange)
       /\ (PresentSessions = {} => ZeroSeries(analyticsData'.studyHoursData))]_vars

\* C12: when a fetch of loadAnalyticsData fails or times out the page still
\* gets a complete zero-filled result: the daysToShow(range) daily entries
\* with 0 hours and 0 sessions, thirty streak days all false, the split 0/100
\* and zero stats.
C12_FailureZeroFilled ==
  [][LoadFailed =>
       /\ DailySeries(analyticsData'.studyHoursData, timeRange)
       /\ ZeroSeries(analyticsData'.studyHoursData)
       /\ Len(analyticsData'.streakData) = MonthDays
       /\ \A k \in 1..Len(analyticsData'.streakData) :
             ~analyticsData'.streakData[k].studied
       /\ analyticsData'.taskCompletionData = [Completed |-> 0, Pending |-> 100]
       /\ analyticsData'.stats = [totalSessions |-> 0, thisWeekSessions |-> 0]]_vars

\* C13: whenever the analytics page has loaded its data, the completed and
\* pending percentages add up to 100 within 1, both are computed against the
\* number of the owner's todos, and with no todos the split is 0 / 100.
CompletedTodos == {i \in LiveTodos : todos[i].status = "completed"}
C13_SplitOverTodos ==
  [][LoadResolved =>
       LET split == analyticsData'.taskCompletionData
           total == Cardinality(LiveTodos)
       IN /\ split.Completed + split.Pending \in 99..101
          /\ total = 0 => split = [Completed |-> 0, Pending |-> 100]
          /\ total > 0 =>
               /\ split.Completed = percentOf(Cardinality(CompletedTodos), total)
               /\ split.Pending =
                    percentOf(total - Cardinality(CompletedTodos), total)]_vars

\* ----------------------------------------------------- claims, tick driver
\* C14: in every reachable state of the timer page at most one interval is
\* armed, and none while the timer is paused or the remaining time is 0,
\* however start, pause, reset and end session are interleaved.
C14_SingleTickDriver ==
  \A t \in Tabs :
    /\ ticker[t].armed <= 1
    /\ ticker[t].armed = 1 => (isActive[t] /\ timeLeft[t] > 0)
\* the timer was started, paused and started again, and runs in the middle of
\* the countdown on a driver that replaced earlier ones
C14_Witness ==
  /\ budget <= MaxClicks - 3
  /\ isActive[1] /\ timeLeft[1] > 0
  /\ timeLeft[1] < workDuration * SecPerMinute
  /\ ticker[1] = [current |-> "live", armed |-> 1]

\* ------------------------------------------- claims, close and aggregate
\* C15: a read never finds a session with its end time set (and a duration
\* that counts) which the aggregate does not include yet: in every state the
\* aggregate counts at least as many sessions as are closed with a duration.
C15_CloseAtomicWithAggregate ==
  Cardinality({i \in ClosedSessions : sessions[i].duration # 0})
    <= analytics.total_sessions

\* ------------------------------------------------- claims, failed calls
LocalState(t) ==
  <<currentSession[t], isActive[t], currentPhase[t], timeLeft[t], cycleCount[t],
    tasks[t]>>
\* a step in which the mutation call of a handler of the tab throws
MutationFailed(t) ==
  /\ failures' = failures + 1
  /\ \/ phaseOp[t].stage # "idle" /\ phaseOp'[t].stage = "idle"
     \/ endOp[t].stage # "idle" /\ endOp'[t].stage = "idle"
     \/ todoOp[t].stage # "idle" /\ todoOp'[t].stage = "idle"

\* C16: when the call of End Session, of the duration update on phase
\* completion or of create / toggle / delete task fails, the step in which it
\* fails leaves the page's current session, running flag, phase, remaining
\* time, cycle count and task list as they were when the call was made.
C16_FailureKeepsLocalState ==
  [][\A t \in Tabs : MutationFailed(t) => LocalState(t)' = LocalState(t)]_vars
\* the duration update of a completed work phase has failed: the page still
\* shows the work phase at 0 with its session
C16_Witness ==
  /\ failures = 1 /\ err[1] = Unavailable
  /\ phaseOp[1].stage = "idle" /\ endOp[1].stage = "idle" /\ todoOp[1].stage = "idle"
  /\ currentSession[1].id # 0
  /\ currentPhase[1] = "work" /\ timeLeft[1] = 0 /\ ~isActive[1]

\* ------------------------------------------------ claims, todo functions
Blank(title) == \A k \in 1..Len(title) : title[k] = " "
\* s is t without the blanks at its two ends
IsTrimOf(s, t) ==
  /\ s # <<>> => (s[1] # " " /\ s[Len(s)] # " ")
  /\ \E a \in 0..Len(t) :
       /\ a + Len(s) <= Len(t)
       /\ SubSeq(t, a + 1, a + Len(s)) = s
       /\ \A k \in (1..a) \cup ((a + Len(s) + 1)..Len(t)) : t[k] = " "
CreateResolved(c) ==
  /\ todoOp[c].stage = "req" /\ todoOp[c].kind = "create"
  /\ todoOp'[c].stage = "idle" /\ failures' = failures

\* C17: createTodo with a title that is empty or only blanks fails with the
\* validation error and stores nothing; with any other title one todo is
\* stored, and its title is the given title without the blanks at its ends.
C17_CreateValidatesAndTrims ==
  [][\A c \in Tabs : CreateResolved(c) =>
       IF Blank(todoOp[c].title)
       THEN /\ err'[c] = TitleRequired
            /\ todos' = todos /\ titles' = titles
       ELSE \E id \in TodoIds :
              /\ todos[id].state = "unused" /\ todos'[id].state = "live"
              /\ IsTrimOf(titles'[id], todoOp[c].title)
              /\ \A k \in TodoIds \ {id} :
                    todos'[k] = todos[k] /\ titles'[k] = titles[k]]_vars
\* one caller was refused a blank title, a todo is stored under a title with
\* no blank, and a title with a leading blank is on its way
C17_Witness ==
  /\ err[1] = TitleRequired
  /\ todos[1].state = "live" /\ titles[1] = <<"a">>
  /\ todoOp[2].stage = "req" /\ todoOp[2].kind = "create"
  /\ todoOp[2].title = <<" ", "a">>

\* C18: deleteTodo for an id that does not exist or belongs to another owner
\* fails with NotFound and changes neither the stored todos nor the page's
\* task list.
NotFound == "NotFound"
DeleteMissed(c) ==
  /\ todoOp[c].stage = "req" /\ todoOp[c].kind = "delete"
  /\ todos[todoOp[c].id].state # "live"
  /\ todoOp'[c].stage = "idle" /\ failures' = failures
C18_DeleteMissingFails ==
  [][\A c \in Tabs : DeleteMissed(c) =>
       err'[c] = NotFound /\ todos' = todos /\ tasks' = tasks]_vars

\* C19: updateTodo for an id that is not the caller's (a row of another
\* owner, or no row) fails, changes no todo of any owner and does not
\* increment total_completed_tasks.
UpdateNotOwned(c) ==
  /\ todoOp[c].stage = "req" /\ todoOp[c].kind = "toggle"
  /\ todos[todoOp[c].id].state # "live"
  /\ todoOp'[c] # todoOp[c]
C19_UpdateNotOwnedFails ==
  [][\A c \in Tabs : UpdateNotOwned(c) =>
       /\ err'[c] \in {NoRowReturned, Unavailable}
       /\ todoOp'[c].stage = "idle"
       /\ todos' = todos /\ titles' = titles
       /\ analytics' = analytics]_vars
\* both callers asked to complete a todo while the table held only the other
\* owner's row; both were refused and that row is still pending
C19_Witness ==
  /\ budget = MaxCalls - 2
  /\ err[1] = NoRowReturned /\ err[2] = NoRowReturned
  /\ todos[1].state = "unused"
  /\ todos[MaxTodos] = ForeignTodo
  /\ analytics.total_completed_tasks = 0

\* ---------------------------------------------------- claims, clock skew
InvalidSessionState == "InvalidSessionState"
\* checkActiveSession resumes with an open session that starts after now
SkewedResume(t) ==
  \E c \in chk[t] :
    /\ c.stage = "resp" /\ c.data.id # 0
    /\ c.data.start_time > now
    /\ chk'[t] = chk[t] \ {c}

\* C20: when the open session's start time is later than the current time,
\* checkActiveSession fails with InvalidSessionState and sets no remaining
\* time from it.
C20_FutureStartRejected ==
  [][\A t \in Tabs : SkewedResume(t) =>
       err'[t] = InvalidSessionState /\ timeLeft'[t] = timeLeft[t]]_vars

\* ------------------------------------------------ claims, remaining time
\* C21: in every reachable state of the timer page with a current session
\* the remaining seconds lie between 0 and the configured duration of the
\* current phase, so the progress ratio lies between 0 and 1. (Pages without
\* a session are left out: they show the initial 25 minutes whatever the
\* configured work duration is.)
C21_RemainingWithinPhase ==
  \A t \in pages :
    currentSession[t].id # 0 =>
      /\ 0 <= timeLeft[t]
      /\ timeLeft[t] <= phases(currentPhase[t]) * SecPerMinute

\* checkActiveSession, called by handlePhaseComplete, resumes on a page that
\* shows the phase it has just entered at its full length
RefreshAfterPhase(t) ==
  /\ \E c \in chk[t] : c.stage = "resp" /\ chk'[t] = chk[t] \ {c}
  /\ cycleCount[t] >= 1 /\ ~isActive[t]
  /\ timeLeft[t] = phases(currentPhase[t]) * SecPerMinute

\* C22: once a phase has completed and the session refresh it triggers has
\* finished, the remaining time is still the configured duration of the new
\* phase: a break after a work phase keeps its full length.
C22_RefreshKeepsNewPhase ==
  [][\A t \in Tabs : RefreshAfterPhase(t) => timeLeft'[t] = timeLeft[t]]_vars

\* checkActiveSession adopts an open session whose work phase is used up
ReconciledToZero(t) ==
  /\ \E c \in chk[t] :
       c.stage = "resp" /\ c.data.id # 0 /\ chk'[t] = chk[t] \ {c}
  /\ timeLeft'[t] = 0
\* the tick effect, evaluated after the step, calls handlePhaseComplete
PhaseCompletionTriggered(t) == timeLeft'[t] = 0 /\ isActive'[t]

\* C23: when checkActiveSession yields 0 remaining seconds for the open
\* session, the evaluation of the tick effect that follows triggers phase
\* completion.
C23_ExpiredPhaseCompletes ==
  [][\A t \in Tabs : ReconciledToZero(t) => PhaseCompletionTriggered(t)]_vars

\* ---------------------------------------------- claims, aggregate counters
\* updateTodo(id, {status: 'completed'}) is applied to a todo of the caller
\* that is completed, and counted, already
CompletedAgain(t) ==
  /\ failures = 0 /\ analytics.total_completed_tasks >= 1
  /\ todoOp[t].stage = "req" /\ todoOp[t].kind = "toggle"
  /\ todoOp[t].status = "completed"
  /\ todos[todoOp[t].id].state = "live"
  /\ todos[todoOp[t].id].status = "completed"
  /\ todoOp'[t].stage # "req"

\* C24: setting status completed on a todo that is completed already starts
\* no analytics update, so total_completed_tasks rises only when a todo
\* changes from pending to completed.
C24_NoIncrementWhenCompleted ==
  [][\A t \in Tabs : CompletedAgain(t) =>
       todoOp'[t].stage = "idle" /\ analytics' = analytics]_vars

\* ------------------------------------------------ claims, session duration
\* handleEndSession sends its update
EndSessionCalled(t) == endOp[t].stage = "idle" /\ endOp'[t].stage = "req"

\* C25: ending the session while short-break or long-break is the current
\* phase adds 0 minutes to the session's duration; ending during a work phase
\* adds the whole minutes of the work phase that have elapsed.
C25_OnlyWorkMinutesCount ==
  [][\A t \in Tabs : EndSessionCalled(t) =>
       endOp'[t].duration =
         currentSession[t].duration +
           (IF currentPhase[t] = "work"
            THEN (workDuration * SecPerMinute - timeLeft[t]) \div SecPerMinute
            ELSE 0)]_vars

\* ------------------------------------------------ claims, day buckets
\* the closed sessions that ended on one of the days of the series
ClosedInWindow(range) ==
  {i \in ClosedSessions :
     /\ DayOf(sessions[i].end_time) > DayOf(now) - daysToShow(range)
     /\ DayOf(sessions[i].end_time) <= DayOf(now)}
BucketSessions(series) ==
  SumOver([k \in 1..Len(series) |-> series[k].sessions], 1..Len(series))

\* C26: whenever the analytics page has loaded its data, every closed session
\* that ended within the days of the series is counted in one day bucket: the
\* buckets' session counts add up to the number of those sessions.
C26_BucketsCountClosedSessions ==
  [][LoadResolved =>
       BucketSessions(analyticsData'.studyHoursData)
         = Cardinality(ClosedInWindow(timeRange))]_vars

\* ------------------------------------------ claims, aggregate row updates
\* C27: between two consecutive states of the owner's aggregate none of
\* total_sessions, total_study_time and total_completed_tasks decreases,
\* however the session closes and task updates of the callers interleave.
C27_CountersNeverDecrease ==
  [][/\ analytics'.total_sessions >= analytics.total_sessions
     /\ analytics'.total_study_time >= analytics.total_study_time
     /\ analytics'.total_completed_tasks >= analytics.total_completed_tasks]_vars

\* C28: getAnalytics terminates: an absent row is inserted at most once, and
\* a call whose insert in initializeUserAnalytics failed ends with an error
\* instead of selecting and inserting again.
InsertFailed(c) ==
  /\ getOp[c].stage = "insert"
  /\ getOp'[c].stage # "insert"
  /\ getOp'[c].insertError = "failed"
C28_FailedInsertEndsCall ==
  [][\A c \in Tabs : InsertFailed(c) => getOp'[c].stage = "thrown"]_vars

\* C29: a task completion and a session close of the same owner, issued
\* through the client data layer and interleaved in any way, do not overwrite
\* each other: once both have finished total_completed_tasks has risen by 1,
\* total_sessions by 1 and total_study_time by the session's duration.
\* (The aggregate starts at zero; four calls were made: one session and one
\* todo created, the session closed once, the todo completed once.)
ClosedOnce(i) ==
  /\ PresentSessions = {i}
  /\ sessions[i].end_time # Null
  /\ sessions[i].duration > 0
CompletedOnce(j) ==
  /\ LiveTodos = {j}
  /\ todos[j].status = "completed"
PairDone(i, j) ==
  /\ budget = 0 /\ failures = 0
  /\ \A c \in Tabs : endOp[c].stage = "idle" /\ todoOp[c].stage = "idle"
  /\ ClosedOnce(i) /\ CompletedOnce(j)
C29_CloseAndCompletionBothCount ==
  \A i \in SessionIds, j \in TodoIds :
    PairDone(i, j) =>
      /\ analytics.total_completed_tasks = 1
      /\ analytics.total_sessions = 1
      /\ analytics.total_study_time = sessions[i].duration
C29_Witness ==
  \E i \in SessionIds, j \in TodoIds :
    /\ PairDone(i, j)
    /\ analytics.total_completed_tasks = 1
    /\ analytics.total_sessions = 1

\* C30: a timer page without a current session is not running, is in the
\* work phase and has cycle count 0; this also holds after End Session has
\* completed while a phase-completion handler was awaiting its session update.
C30_IdlePageIsReset ==
  \A t \in pages :
    currentSession[t].id = 0 =>
      /\ ~isActive[t]
      /\ currentPhase[t] = "work"
      /\ cycleCount[t] = 0

====
